---- MODULE Spec2Model ----
(***************************************************************************)
(* Model of the gocollect storage layer (gocollect/store.go, user.go) on   *)
(* top of the bolt key-value engine.  Strings are byte sequences, a bucket *)
(* is a function from byte-sequence keys to values, and a bolt read-write  *)
(* transaction is a private working copy of the file's buckets that is     *)
(* installed on commit and dropped on rollback.                            *)
(*                                                                         *)
(* Spec has one caller at a time: each action is a whole call, and what it *)
(* returned is kept in out.  SpecConc has NProcs goroutines inside AddUser *)
(* at once, interleaved at the transaction's begin and commit.  SpecBackup *)
(* has a /backup request that streams page by page while AddUser calls     *)
(* commit.  SpecLife has NProcs goroutines in Open and Close of one Store. *)
(***************************************************************************)
EXTENDS Integers, Sequences, FiniteSets, TLC

\* ------------------------------------------------------------------ bounds

\* Number of request goroutines that call into the store concurrently.
NProcs == 2

\* Cap on the users bucket's sequence counter (a uint64 in bolt).
MaxSeq == 3

\* bolt.MaxKeySize is 32768; scaled down so that an oversize key is an input
\* of the model.  Every key the model stores on purpose fits.
MaxKeySize == 8

Procs == 1..NProcs

\* ------------------------------------------------------------------ bytes

\* bytes.Compare: -1, 0 or 1, byte-lexicographic.
RECURSIVE BytesCompare(_, _)
BytesCompare(a, b) ==
    IF a = <<>> THEN (IF b = <<>> THEN 0 ELSE -1)
    ELSE IF b = <<>> THEN 1
    ELSE IF Head(a) < Head(b) THEN -1
    ELSE IF Head(a) > Head(b) THEN 1
    ELSE BytesCompare(Tail(a), Tail(b))

\* bytes.HasPrefix
HasPrefix(k, prefix) ==
    Len(k) >= Len(prefix) /\ SubSeq(k, 1, Len(prefix)) = prefix

\* binary.BigEndian.PutUint64 on the low n bytes of v.
RECURSIVE BigEndian(_, _)
BigEndian(v, n) ==
    IF n = 0 THEN <<>> ELSE BigEndian(v \div 256, n - 1) \o <<v % 256>>

\* idToBytes returns an 8-byte big endian representation of v.
idToBytes(v) == BigEndian(v, 8)

\* binary.BigEndian.Uint64: the value of the first 8 bytes of b.
RECURSIVE BigEndianValue(_, _)
BigEndianValue(b, n) ==
    IF n = 0 THEN 0 ELSE BigEndianValue(b, n - 1) * 256 + b[n]

idFromBytes(b) == BigEndianValue(b, 8)

\* ------------------------------------------------------------------ user.go

IsLetter(c) == (c >= 65 /\ c <= 90) \/ (c >= 97 /\ c <= 122)

IsDigit(c) == c >= 48 /\ c <= 57

\* [A-Z0-9._%+-] under (?i)
IsLocalChar(c) == IsLetter(c) \/ IsDigit(c) \/ c \in {46, 95, 37, 43, 45}

\* [A-Z0-9-] under (?i)
IsLabelChar(c) == IsLetter(c) \/ IsDigit(c) \/ c = 45

\* validEmail.MatchString: the expression is not anchored, so it matches when
\* some substring is  local-char '@' (label '.')+ letter letter.
IsEmailValid(s) ==
    \E at \in 2..Len(s), dot \in 1..Len(s) :
        /\ s[at] = 64
        /\ IsLocalChar(s[at - 1])
        /\ dot > at + 1
        /\ s[dot] = 46
        /\ \A i \in (at + 1)..dot :
              IsLabelChar(s[i]) \/ (s[i] = 46 /\ IsLabelChar(s[i - 1]))
        /\ dot + 2 <= Len(s)
        /\ IsLetter(s[dot + 1])
        /\ IsLetter(s[dot + 2])

\* Mutant of IsValid: every user passes.
IsValidAlways(u) == TRUE

\* User.IsValid
IsValid(u) == IsEmailValid(u.Email)

\* ------------------------------------------------------------------ json

\* The encoding of U+FFFD.
Replacement == <<239, 191, 189>>

\* encoding/json coerces a string to valid UTF-8 when it marshals it, each
\* invalid byte becoming U+FFFD.  The bytes >= 128 of the model's inputs are
\* 0xFF, which is valid nowhere, and the replacement character itself.
RECURSIVE CoerceUTF8(_)
CoerceUTF8(s) ==
    IF s = <<>> THEN <<>>
    ELSE IF Head(s) < 128 THEN <<Head(s)>> \o CoerceUTF8(Tail(s))
    ELSE IF Len(s) >= 3 /\ SubSeq(s, 1, 3) = Replacement
         THEN Replacement \o CoerceUTF8(SubSeq(s, 4, Len(s)))
    ELSE Replacement \o CoerceUTF8(Tail(s))

\* json.Marshal(u): the document {"id":..,"email":..,"phone":..}, kept as the
\* three values a decoder reads back from it.
Marshal(u) ==
    [id |-> u.ID, email |-> CoerceUTF8(u.Email), phone |-> CoerceUTF8(u.PhoneNo)]

\* json.Unmarshal(val, &user)
Unmarshal(val) == [ID |-> val.id, Email |-> val.email, PhoneNo |-> val.phone]

\* The zero User.
ZeroUser == [ID |-> 0, Email |-> <<>>, PhoneNo |-> <<>>]

\* ------------------------------------------------------------------ bolt

\* bucket names
userBucketName == "users"

userEventsBucketName == "userevents"

emailToUserIDBucketName == "emailtouserid"

phoneNoToUserIDBucketName == "phonenotouserid"

\* The error of Bucket.Put for a key ("nil": none).
PutError(key) ==
    IF Len(key) = 0 THEN "ErrKeyRequired"
    ELSE IF Len(key) > MaxKeySize THEN "ErrKeyTooLarge"
    ELSE "nil"

\* Mutant of Put: a key that is already there keeps its value.
PutIfAbsent(bucket, key, value) ==
    [k \in DOMAIN bucket \cup {key} |->
        IF k \in DOMAIN bucket THEN bucket[k] ELSE value]

\* Bucket.Put on a bucket's key/value pairs: sets or replaces the key's value.
Put(bucket, key, value) ==
    [k \in DOMAIN bucket \cup {key} |-> IF k = key THEN value ELSE bucket[k]]

\* A bucket's keys in the order a cursor walks them.
RECURSIVE SortKeys(_)
SortKeys(S) ==
    IF S = {} THEN <<>>
    ELSE LET m == CHOOSE x \in S : \A y \in S : BytesCompare(x, y) <= 0
         IN  <<m>> \o SortKeys(S \ {m})

\* Mutant of Seek: the cursor starts at the first key (Cursor.First).
SeekFirst(keys, seek) == 1

\* Cursor.Seek: the position of the first key >= seek, past the end if none.
Seek(keys, seek) ==
    LET at == {i \in 1..Len(keys) : BytesCompare(keys[i], seek) >= 0}
    IN  IF at = {} THEN Len(keys) + 1
        ELSE CHOOSE i \in at : \A j \in at : i <= j

\* A store file with no bucket in it.
EmptyFile ==
    [buckets  |-> {},
     sequence |-> 0,
     users    |-> <<>>,
     events   |-> {},
     emails   |-> <<>>,
     phones   |-> <<>>]

\* Every bucket Init creates.
AllBuckets ==
    {userBucketName, userEventsBucketName, emailToUserIDBucketName,
     phoneNoToUserIDBucketName}

\* ------------------------------------------------------------------ inputs

\* "a@b.cc"
EmailA == <<97, 64, 98, 46, 99, 99>>

\* "ab@b.cc"
EmailAB == <<97, 98, 64, 98, 46, 99, 99>>

\* "b@b.cc"
EmailB == <<98, 64, 98, 46, 99, 99>>

\* "a@b": no top-level domain, fails the validity predicate
EmailBad == <<97, 64, 98>>

\* "5"
Phone5 == <<53>>

\* "\xff": a Go string that is not valid UTF-8
PhoneFF == <<255>>

\* "555555555555": longer than MaxKeySize by more than one
PhoneLong == <<53, 53, 53, 53, 53, 53, 53, 53, 53, 53, 53, 53>>

\* The users a caller passes to AddUser.
Users ==
    {[ID |-> 9, Email |-> EmailA,   PhoneNo |-> Phone5],
     [ID |-> 0, Email |-> EmailAB,  PhoneNo |-> <<>>],
     [ID |-> 0, Email |-> EmailB,   PhoneNo |-> PhoneFF],
     [ID |-> 0, Email |-> EmailBad, PhoneNo |-> Phone5],
     [ID |-> 0, Email |-> EmailAB,  PhoneNo |-> PhoneLong]}

\* What the callers ask the read operations for.
ReadIDs == 0..(MaxSeq + 1)

ReadEmails == {EmailA, EmailAB, EmailB, EmailBad}

ReadPhones == {Phone5, PhoneFF, Replacement}

\* "", "a", "ab", "b", "c"
ReadPrefixes == {<<>>, <<97>>, <<97, 98>>, <<98>>, <<99>>}

\* ------------------------------------------------------------------ reads

\* A read-only transaction (db.View) sees the committed content d of the file.

\* Store.GetUserIDUsingEmail
GetUserIDUsingEmail(d, email) ==
    IF /\ userBucketName \in d.buckets
       /\ emailToUserIDBucketName \in d.buckets
       /\ email \in DOMAIN d.emails
    THEN [id |-> idFromBytes(d.emails[email]), err |-> "nil"]
    ELSE [id |-> 0, err |-> "Could not find user ID for email"]

\* Store.GetUserIDUsingPhoneNo
GetUserIDUsingPhoneNo(d, phoneNo) ==
    IF /\ userBucketName \in d.buckets
       /\ phoneNoToUserIDBucketName \in d.buckets
       /\ phoneNo \in DOMAIN d.phones
    THEN [id |-> idFromBytes(d.phones[phoneNo]), err |-> "nil"]
    ELSE [id |-> 0, err |-> "Could not find user ID for phone"]

\* The loop of GetUserIDsMatchingFuzzyEmail from cursor position i: it
\* appends while there is a key and the key has the prefix.
RECURSIVE FuzzyLoop(_, _, _, _)
FuzzyLoop(bucket, keys, i, prefix) ==
    IF i <= Len(keys) /\ HasPrefix(keys[i], prefix)
    THEN <<idFromBytes(bucket[keys[i]])>> \o FuzzyLoop(bucket, keys, i + 1, prefix)
    ELSE <<>>

\* Mutant of GetUserIDsMatchingFuzzyEmail: a loop that appended nothing falls
\* through to the error, as a lookup that found nothing does.
FuzzyErrWhenEmpty(d, email) ==
    LET keys == SortKeys(DOMAIN d.emails)
        ids == FuzzyLoop(d.emails, keys, Seek(keys, email), email)
    IN  IF /\ userBucketName \in d.buckets
           /\ emailToUserIDBucketName \in d.buckets
           /\ ids # <<>>
        THEN [ids |-> ids, err |-> "nil"]
        ELSE [ids |-> <<>>, err |-> "Could not find user ID for email"]

\* Store.GetUserIDsMatchingFuzzyEmail
GetUserIDsMatchingFuzzyEmail(d, email) ==
    IF /\ userBucketName \in d.buckets
       /\ emailToUserIDBucketName \in d.buckets
    THEN LET keys == SortKeys(DOMAIN d.emails)
         IN  [ids |-> FuzzyLoop(d.emails, keys, Seek(keys, email), email),
              err |-> "nil"]
    ELSE [ids |-> <<>>, err |-> "Could not find user ID for email"]

\* Mutant of GetUser: a key that is not there yields the zero User and no
\* error.
GetUserNilWhenAbsent(d, n) ==
    IF userBucketName \in d.buckets /\ idToBytes(n) \in DOMAIN d.users
    THEN [user |-> Unmarshal(d.users[idToBytes(n)]), err |-> "nil"]
    ELSE [user |-> ZeroUser, err |-> "nil"]

\* Store.GetUser
GetUser(d, n) ==
    IF userBucketName \in d.buckets /\ idToBytes(n) \in DOMAIN d.users
    THEN [user |-> Unmarshal(d.users[idToBytes(n)]), err |-> "nil"]
    ELSE [user |-> ZeroUser, err |-> "Could not find user for ID"]

\* ------------------------------------------------------------------ file

\* The store file as the sequence of its pages: two meta pages that hold the
\* number of pages of the file, the page of the root (which buckets exist,
\* and the sequence of the users bucket), then the pages of the records, the
\* event buckets, the email index and the phone index, each in key order.
\* A page is <<kind, key, value>>.  Page size is scaled down to one item a
\* page, so that every AddUser that commits makes the file longer.

\* The pages of one bucket.
BucketPages(kind, bucket, keys) ==
    [i \in 1..Len(keys) |-> <<kind, keys[i], bucket[keys[i]]>>]

\* The pages below the meta pages.
DataPages(d) ==
    <<<<"root", d.buckets, d.sequence>>>>
    \o BucketPages("user", d.users, SortKeys(DOMAIN d.users))
    \o BucketPages("events", [k \in d.events |-> <<>>], SortKeys(d.events))
    \o BucketPages("email", d.emails, SortKeys(DOMAIN d.emails))
    \o BucketPages("phone", d.phones, SortKeys(DOMAIN d.phones))

\* A meta page of a file of n pages.
MetaPage(n) == <<"meta", <<>>, n>>

\* The file that holds the content d.
File(d) ==
    LET data == DataPages(d)
        meta == MetaPage(Len(data) + 2)
    IN  <<meta, meta>> \o data

\* Store.Size: tx.Size() in a read-only transaction, the length of the file
\* as the transaction sees it (in pages).
Size(d) == Len(File(d))

\* Mutant of TxView: the transaction reads the pages of the file as they are
\* now.
TxViewLive(snap, cur) == cur

\* What a read-only transaction reads when the committed content is cur: the
\* content snap that was committed when it began.  (A commit writes new pages
\* and leaves those an open transaction can reach alone.)
TxView(snap, cur) == snap

\* Mutant of WriteToLength: the copy stops one page short.
WriteToLengthShort(snap) == Size(snap) - 1

\* tx.WriteTo writes tx.Size() bytes.
WriteToLength(snap) == Size(snap)

\* tx.WriteTo: the i-th page it writes.  The two meta pages are the
\* transaction's own meta, the others are copied from the file.
WriteToPage(snap, cur, i) ==
    IF i <= 2 THEN MetaPage(Size(snap))
    ELSE File(TxView(snap, cur))[i]

\* The keys and values of the pages of one kind.
PagesOfKind(pages, kind) ==
    LET at == {i \in 1..Len(pages) : pages[i][1] = kind}
    IN  [k \in {pages[i][2] : i \in at} |->
            pages[CHOOSE i \in at : pages[i][2] = k][3]]

\* bolt.Open on a file with these pages: the content it holds.  The file is
\* invalid when a meta page is missing or the file is shorter or longer than
\* its meta page says.
ReadFile(pages) ==
    IF /\ Len(pages) > 2
       /\ pages[1] = MetaPage(Len(pages))
       /\ pages[2] = MetaPage(Len(pages))
       /\ pages[3][1] = "root"
    THEN [ok |-> TRUE,
          d  |-> [buckets  |-> pages[3][2],
                  sequence |-> pages[3][3],
                  users    |-> PagesOfKind(pages, "user"),
                  events   |-> DOMAIN PagesOfKind(pages, "events"),
                  emails   |-> PagesOfKind(pages, "email"),
                  phones   |-> PagesOfKind(pages, "phone")]]
    ELSE [ok |-> FALSE, d |-> EmptyFile]

\* ------------------------------------------------------------------ AddUser

\* Mutant of NextSequence: reads the counter (Bucket.Sequence) and does not
\* advance it.
NextSequenceNoIncrement(d) == d.sequence

\* Bucket.NextSequence on the transaction's users bucket.
NextSequence(d) == d.sequence + 1

\* The function AddUser passes to db.Update, statement by statement.  f holds
\* the transaction's working copy d, the locals u, id and err, and done once
\* the function has returned (or panicked).

\* tx.Bucket(users), NextSequence, json.Marshal and the Put of the record.
\* NextSequence on the nil bucket of a file that was never initialised
\* panics.
FnSeq(f) ==
    IF userBucketName \notin f.d.buckets
    THEN [f EXCEPT !.err = "panic", !.done = TRUE]
    ELSE LET n == NextSequence(f.d)
             key == idToBytes(n)
             u2 == [f.u EXCEPT !.ID = n]
             f2 == [f EXCEPT !.d.sequence = n, !.u = u2, !.id = n]
         IN  IF PutError(key) # "nil"
             THEN [f2 EXCEPT !.err = PutError(key), !.done = TRUE]
             ELSE [f2 EXCEPT !.d.users = Put(f.d.users, key, Marshal(u2))]

\* eventsBucket.CreateBucket(idToBytes(u.ID)); its error is kept in err and
\* not looked at.
FnEvents(f) ==
    LET key == idToBytes(f.u.ID)
    IN  IF f.done \/ userEventsBucketName \notin f.d.buckets THEN f
        ELSE IF key \in f.d.events THEN [f EXCEPT !.err = "ErrBucketExists"]
        ELSE [f EXCEPT !.err = "nil", !.d.events = f.d.events \cup {key}]

\* userEmailBucket.Put([]byte(u.Email), idToBytes(u.ID))
FnEmail(f) ==
    LET key == f.u.Email
    IN  IF f.done \/ emailToUserIDBucketName \notin f.d.buckets THEN f
        ELSE IF PutError(key) # "nil"
        THEN [f EXCEPT !.err = PutError(key), !.done = TRUE]
        ELSE [f EXCEPT !.err = "nil",
                       !.d.emails = Put(f.d.emails, key, idToBytes(f.u.ID))]

\* userPhoneNoBucket.Put([]byte(u.PhoneNo), idToBytes(u.ID)) when there is a
\* phone number, then return err.
FnPhone(f) ==
    LET key == f.u.PhoneNo
    IN  IF f.done THEN f
        ELSE IF key = <<>> \/ phoneNoToUserIDBucketName \notin f.d.buckets
        THEN [f EXCEPT !.done = TRUE]
        ELSE IF PutError(key) # "nil"
        THEN [f EXCEPT !.err = PutError(key), !.done = TRUE]
        ELSE [f EXCEPT !.err = "nil",
                       !.done = TRUE,
                       !.d.phones = Put(f.d.phones, key, idToBytes(f.u.ID))]

\* The function's state when db.Update calls it on the content d.
FnStart(d, user) == [d |-> d, u |-> user, id |-> 0, err |-> "nil", done |-> FALSE]

\* The whole function on the content d the transaction began with.
TxFunc(d, user) == FnPhone(FnEmail(FnEvents(FnSeq(FnStart(d, user)))))

\* Mutant of AddUserOutcome: a transaction that fails after NextSequence
\* leaves the counter advanced.
AddUserOutcomeSeqKept(d, user, commitOK) ==
    IF ~IsValid(user)
    THEN [db |-> d, id |-> 0, err |-> "User is not valid", began |-> FALSE]
    ELSE LET f == TxFunc(d, user)
             kept == [d EXCEPT !.sequence = f.d.sequence]
         IN  IF f.err # "nil"
             THEN [db |-> kept, id |-> f.id, err |-> f.err, began |-> TRUE]
             ELSE IF commitOK
             THEN [db |-> f.d, id |-> f.id, err |-> "nil", began |-> TRUE]
             ELSE [db |-> kept, id |-> f.id, err |-> "commit failed", began |-> TRUE]

\* Store.AddUser with nothing else running: the content of the file and what
\* the call returns.  began says whether db.Update was called; commitOK says
\* whether the commit's write to the file succeeds.
AddUserOutcome(d, user, commitOK) ==
    IF ~IsValid(user)
    THEN [db |-> d, id |-> 0, err |-> "User is not valid", began |-> FALSE]
    ELSE LET f == TxFunc(d, user)
         IN  IF f.err # "nil"
             THEN [db |-> d, id |-> f.id, err |-> f.err, began |-> TRUE]
             ELSE IF commitOK
             THEN [db |-> f.d, id |-> f.id, err |-> "nil", began |-> TRUE]
             ELSE [db |-> d, id |-> f.id, err |-> "commit failed", began |-> TRUE]

\* ------------------------------------------------------------------ state

VARIABLES
    db,      \* the committed content of the store file
    out,     \* Spec: the last call and what it returned
    rwlock,  \* SpecConc: the goroutines that hold bolt's writer lock
    pc,      \* SpecConc: where each goroutine is in AddUser
    u,       \* SpecConc: each goroutine's AddUser argument
    tx,      \* SpecConc: each goroutine's read-write transaction
    hist,    \* the successful AddUser returns so far, in order: id and argument
    bootAt,  \* how many AddUser calls had succeeded when the process last started
    bk,      \* SpecBackup: the /backup request or Backup call in progress
    life,    \* SpecLife: the Store's open flag, engine handle, mutex and file lock
    lpc,     \* SpecLife: where each goroutine is in Open or Close
    last     \* SpecLife: the last Open or Close that returned, and what it returned

vars == <<db, out, rwlock, pc, u, tx, hist, bootAt, bk, life, lpc, last>>

\* What the record operations leave alone.
rest == <<bk, life, lpc, last>>

conc == <<rwlock, pc, u, tx>>

NoTx == [open |-> FALSE]

NoCall == [op |-> "none"]

\* No /backup request and no Backup call is in progress.
NoBackup == [pc |-> "idle"]

\* new(Store): the flag is false and there is no engine handle.  mu is the
\* set of goroutines that hold the embedded sync.Mutex, flock says whether an
\* engine handle holds the exclusive lock on the store file.
NewStore == [open |-> FALSE, db |-> "nil", mu |-> {}, flock |-> FALSE]

Init ==
    /\ db = EmptyFile
    /\ out = NoCall
    /\ rwlock = {}
    /\ pc = [p \in Procs |-> "idle"]
    /\ u = [p \in Procs |-> ZeroUser]
    /\ tx = [p \in Procs |-> NoTx]
    /\ hist = <<>>
    /\ bootAt = 0
    /\ bk = NoBackup
    /\ life = NewStore
    /\ lpc = [p \in Procs |-> "idle"]
    /\ last = NoCall

\* ------------------------------------------------------------------ lifecycle

\* Mutant of CreateBucketIfNotExists: the bucket is deleted and created, so
\* it comes out empty (and with it, for the users bucket, everything nested
\* in it and its sequence).
CreateBucketAnew(d, name) ==
    IF name = userBucketName THEN [EmptyFile EXCEPT !.buckets = {name}]
    ELSE IF name = userEventsBucketName
    THEN [d EXCEPT !.buckets = @ \cup {name}, !.events = {}]
    ELSE IF name = emailToUserIDBucketName
    THEN [d EXCEPT !.buckets = @ \cup {name}, !.emails = <<>>]
    ELSE [d EXCEPT !.buckets = @ \cup {name}, !.phones = <<>>]

\* CreateBucketIfNotExists: the bucket exists afterwards, and what it held
\* is untouched.  (It fails for an empty or oversize name and for a key that
\* holds a plain value; the four names are neither, and the keys of the
\* records in the users bucket are 8 bytes long.)
CreateBucketIfNotExists(d, name) == [d EXCEPT !.buckets = @ \cup {name}]

\* The function Init passes to db.Update.
InitFunc(d) ==
    CreateBucketIfNotExists(
        CreateBucketIfNotExists(
            CreateBucketIfNotExists(
                CreateBucketIfNotExists(d, userBucketName),
                userEventsBucketName),
            emailToUserIDBucketName),
        phoneNoToUserIDBucketName)

\* Store.Init with nothing else running: one read-write transaction.  The
\* commit can fail (file I/O), and then nothing is written.
InitOutcome(d, ok) ==
    IF ok THEN [db |-> InitFunc(d), err |-> "nil"]
    ELSE [db |-> d, err |-> "commit failed"]

\* Store.Init, as SpecConc and SpecBackup take it: what it returned is not
\* kept.
InitStore ==
    /\ rwlock = {}
    /\ \E ok \in BOOLEAN : db' = InitOutcome(db, ok).db
    /\ UNCHANGED <<out, conc, hist, bootAt, rest>>

\* Store.Init, as Spec takes it: one whole call, and what it returned.
InitCall ==
    /\ \E ok \in BOOLEAN :
          LET r == InitOutcome(db, ok)
          IN  /\ db' = r.db
              /\ out' = [op |-> "Init", d |-> db, err |-> r.err]
    /\ UNCHANGED <<conc, hist, bootAt, rest>>

\* The process exits and main starts again on the same file: every goroutine
\* and every open transaction is gone, the committed content stays.
Restart ==
    /\ out' = NoCall
    /\ rwlock' = {}
    /\ pc' = [p \in Procs |-> "idle"]
    /\ u' = [p \in Procs |-> ZeroUser]
    /\ tx' = [p \in Procs |-> NoTx]
    /\ bootAt' = Len(hist)
    /\ UNCHANGED <<db, hist, rest>>

\* ------------------------------------------------------------------ Spec

\* One whole AddUser call.
AddUser ==
    /\ db.sequence < MaxSeq
    /\ \E user \in Users, commitOK \in BOOLEAN :
          LET r == AddUserOutcome(db, user, commitOK)
          IN  /\ db' = r.db
              /\ out' = [op |-> "AddUser", u |-> user, id |-> r.id,
                         err |-> r.err, began |-> r.began]
              /\ hist' = IF r.err = "nil"
                         THEN Append(hist, [id |-> r.id, u |-> user])
                         ELSE hist
    /\ UNCHANGED <<conc, bootAt, rest>>

GetUserCall ==
    /\ \E n \in ReadIDs :
          out' = [op |-> "GetUser", id |-> n, ret |-> GetUser(db, n)]
    /\ UNCHANGED <<db, conc, hist, bootAt, rest>>

GetUserIDUsingEmailCall ==
    /\ \E email \in ReadEmails :
          out' = [op |-> "GetUserIDUsingEmail", email |-> email,
                  ret |-> GetUserIDUsingEmail(db, email)]
    /\ UNCHANGED <<db, conc, hist, bootAt, rest>>

GetUserIDUsingPhoneNoCall ==
    /\ \E phoneNo \in ReadPhones :
          out' = [op |-> "GetUserIDUsingPhoneNo", phoneNo |-> phoneNo,
                  ret |-> GetUserIDUsingPhoneNo(db, phoneNo)]
    /\ UNCHANGED <<db, conc, hist, bootAt, rest>>

GetUserIDsMatchingFuzzyEmailCall ==
    /\ \E email \in ReadPrefixes :
          out' = [op |-> "GetUserIDsMatchingFuzzyEmail", email |-> email,
                  ret |-> GetUserIDsMatchingFuzzyEmail(db, email)]
    /\ UNCHANGED <<db, conc, hist, bootAt, rest>>

Next ==
    \/ InitCall
    \/ Restart
    \/ AddUser
    \/ GetUserCall
    \/ GetUserIDUsingEmailCall
    \/ GetUserIDUsingPhoneNoCall
    \/ GetUserIDsMatchingFuzzyEmailCall

Spec == Init /\ [][Next]_vars

\* ------------------------------------------------------------------ SpecConc

\* Mutant of WriterLockFree: a read-write transaction begins without waiting
\* for the open one.
WriterLockIgnored == TRUE

\* db.Update blocks until no other read-write transaction is open.
WriterLockFree == rwlock = {}

\* AddUser up to db.Update: a call that passes the validity check.  (One
\* that fails it returns at once and changes nothing.)
AddUserCall(p) ==
    /\ pc[p] = "idle"
    /\ \E user \in Users :
          /\ IsValid(user)
          /\ u' = [u EXCEPT ![p] = user]
    /\ pc' = [pc EXCEPT ![p] = "begin"]
    /\ UNCHANGED <<db, out, rwlock, tx, hist, bootAt, rest>>

\* db.Update begins the read-write transaction: it takes the writer lock and
\* works on its own copy of the file's content.
TxBegin(p) ==
    /\ pc[p] = "begin"
    /\ WriterLockFree
    /\ db.sequence < MaxSeq
    /\ rwlock' = rwlock \cup {p}
    /\ tx' = [tx EXCEPT ![p] = [open |-> TRUE, f |-> FnStart(db, u[p])]]
    /\ pc' = [pc EXCEPT ![p] = "seq"]
    /\ UNCHANGED <<db, out, u, hist, bootAt, rest>>

\* One statement of the function has left it in state f.  When the function
\* has returned an error (or panicked) db.Update rolls the transaction back
\* and AddUser returns; when it has returned nil the commit is next.
TxAfter(p, f, next) ==
    /\ IF f.done /\ f.err # "nil"
       THEN /\ rwlock' = rwlock \ {p}
            /\ tx' = [tx EXCEPT ![p] = NoTx]
            /\ u' = [u EXCEPT ![p] = ZeroUser]
            /\ pc' = [pc EXCEPT ![p] = "idle"]
       ELSE /\ tx' = [tx EXCEPT ![p].f = f]
            /\ pc' = [pc EXCEPT ![p] = IF f.done THEN "commit" ELSE next]
            /\ UNCHANGED <<rwlock, u>>
    /\ UNCHANGED <<db, out, hist, bootAt, rest>>

TxSeq(p) == pc[p] = "seq" /\ TxAfter(p, FnSeq(tx[p].f), "events")

TxEvents(p) == pc[p] = "events" /\ TxAfter(p, FnEvents(tx[p].f), "email")

TxEmail(p) == pc[p] = "email" /\ TxAfter(p, FnEmail(tx[p].f), "phone")

TxPhone(p) == pc[p] = "phone" /\ TxAfter(p, FnPhone(tx[p].f), "commit")

\* db.Update commits: the working copy becomes the file's content, or the
\* write fails and the transaction is rolled back.  AddUser returns id, err.
TxCommit(p) ==
    /\ pc[p] = "commit"
    /\ \E commitOK \in BOOLEAN :
          IF commitOK
          THEN /\ db' = tx[p].f.d
               /\ hist' = Append(hist, [id |-> tx[p].f.id, u |-> u[p]])
          ELSE UNCHANGED <<db, hist>>
    /\ rwlock' = rwlock \ {p}
    /\ tx' = [tx EXCEPT ![p] = NoTx]
    /\ u' = [u EXCEPT ![p] = ZeroUser]
    /\ pc' = [pc EXCEPT ![p] = "idle"]
    /\ UNCHANGED <<out, bootAt, rest>>

NextConc ==
    \/ InitStore
    \/ Restart
    \/ \E p \in Procs :
          \/ AddUserCall(p)
          \/ TxBegin(p)
          \/ TxSeq(p)
          \/ TxEvents(p)
          \/ TxEmail(p)
          \/ TxPhone(p)
          \/ TxCommit(p)

SpecConc == Init /\ [][NextConc]_vars

\* ------------------------------------------------------------------ SpecBackup

\* One whole AddUser call of another request, as SpecBackup takes it: what
\* it returned is not kept.  (A call that fails leaves everything as it is.)
AddUserQuiet ==
    /\ db.sequence < MaxSeq
    /\ \E user \in Users, commitOK \in BOOLEAN :
          LET r == AddUserOutcome(db, user, commitOK)
          IN  /\ db' = r.db
              /\ hist' = IF r.err = "nil"
                         THEN Append(hist, [id |-> r.id, u |-> user])
                         ELSE hist
    /\ UNCHANGED <<out, conc, bootAt, rest>>

\* The /backup handler up to Backup: Content-Length is set from Size(), a
\* read-only transaction of its own.
BackupSize ==
    /\ bk.pc \in {"idle", "done"}
    /\ bk' = [pc |-> "sized", length |-> Size(db)]
    /\ UNCHANGED <<db, out, conc, hist, bootAt, life, lpc, last>>

\* The handler calls Backup, which begins its read-only transaction.  from
\* is the number of AddUser calls that have succeeded so far.
BackupBegin ==
    /\ bk.pc = "sized"
    /\ bk' = [pc |-> "stream", length |-> bk.length, snap |-> db,
              sink |-> <<>>, from |-> Len(hist)]
    /\ UNCHANGED <<db, out, conc, hist, bootAt, life, lpc, last>>

\* What Backup leaves when it returns err.
BackupDone(err) ==
    [pc |-> "done", length |-> bk.length, snap |-> bk.snap, sink |-> bk.sink,
     from |-> bk.from, to |-> Len(hist), err |-> err]

\* tx.WriteTo writes the next page to the writer, or the write fails and
\* Backup returns the error.
BackupWrite ==
    /\ bk.pc = "stream"
    /\ Len(bk.sink) < WriteToLength(bk.snap)
    /\ \E ok \in BOOLEAN :
          bk' = IF ok
                THEN [bk EXCEPT !.sink = Append(bk.sink,
                                    WriteToPage(bk.snap, db, Len(bk.sink) + 1))]
                ELSE BackupDone("IOError")
    /\ UNCHANGED <<db, out, conc, hist, bootAt, life, lpc, last>>

\* tx.WriteTo has written every page: Backup returns nil.
BackupReturn ==
    /\ bk.pc = "stream"
    /\ Len(bk.sink) >= WriteToLength(bk.snap)
    /\ bk' = BackupDone("nil")
    /\ UNCHANGED <<db, out, conc, hist, bootAt, life, lpc, last>>

NextBackup ==
    \/ InitStore
    \/ AddUserQuiet
    \/ BackupSize
    \/ BackupBegin
    \/ BackupWrite
    \/ BackupReturn

SpecBackup == Init /\ [][NextBackup]_vars

\* ------------------------------------------------------------------ SpecLife

\* bolt.Open(path, ...) when flock says whether a handle already holds the
\* exclusive lock on the file: it waits for the lock until the timeout, and
\* it can fail on the file itself (ok).  On an error the handle is nil.
BoltOpen(flock, ok) ==
    IF flock THEN [db |-> "nil", err |-> "timeout"]
    ELSE IF ~ok THEN [db |-> "nil", err |-> "IOError"]
    ELSE [db |-> "open", err |-> "nil"]

\* Store.Open between Lock and Unlock.  s.db is assigned whatever bolt.Open
\* returns (a handle that was there stays open and keeps the file lock), and
\* s.open is set when err != nil.
OpenOutcome(s, ok) ==
    LET r == BoltOpen(s.flock, ok)
    IN  [s   |-> [s EXCEPT !.db = r.db,
                           !.flock = s.flock \/ r.err = "nil",
                           !.open = IF r.err # "nil" THEN TRUE ELSE s.open],
         err |-> r.err]

\* Store.Close between Lock and Unlock.  engine is the handle s.db.Close()
\* was called on, "none" if it was not called: on a nil handle it panics, on
\* an open one it closes the file and releases the lock, on a closed one it
\* does nothing.
CloseOutcome(s) ==
    IF ~s.open
    THEN [s |-> s, err |-> "The DB connection is not open", engine |-> "none"]
    ELSE IF s.db = "nil"
    THEN [s |-> [s EXCEPT !.open = FALSE], err |-> "panic", engine |-> "nil"]
    ELSE IF s.db = "open"
    THEN [s |-> [s EXCEPT !.open = FALSE, !.db = "closed", !.flock = FALSE],
          err |-> "nil", engine |-> "open"]
    ELSE [s |-> [s EXCEPT !.open = FALSE], err |-> "nil", engine |-> "closed"]

\* A goroutine calls Open and waits in s.Lock().
OpenCall(p) ==
    /\ lpc[p] = "idle"
    /\ lpc' = [lpc EXCEPT ![p] = "Open.Lock"]
    /\ UNCHANGED <<db, out, conc, hist, bootAt, bk, life, last>>

\* A goroutine calls Close and waits in s.Lock().
CloseCall(p) ==
    /\ lpc[p] = "idle"
    /\ lpc' = [lpc EXCEPT ![p] = "Close.Lock"]
    /\ UNCHANGED <<db, out, conc, hist, bootAt, bk, life, last>>

\* s.Lock() returns: the mutex was free.
LockMutex(p) ==
    /\ lpc[p] \in {"Open.Lock", "Close.Lock"}
    /\ life.mu = {}
    /\ life' = [life EXCEPT !.mu = {p}]
    /\ lpc' = [lpc EXCEPT ![p] = IF lpc[p] = "Open.Lock" THEN "Open" ELSE "Close"]
    /\ UNCHANGED <<db, out, conc, hist, bootAt, bk, last>>

\* The body of Open and the deferred Unlock.
OpenBody(p) ==
    /\ lpc[p] = "Open"
    /\ \E ok \in BOOLEAN :
          LET r == OpenOutcome(life, ok)
          IN  /\ life' = [r.s EXCEPT !.mu = life.mu \ {p}]
              /\ last' = [op |-> "Open", err |-> r.err, engine |-> "none"]
    /\ lpc' = [lpc EXCEPT ![p] = "idle"]
    /\ UNCHANGED <<db, out, conc, hist, bootAt, bk>>

\* The body of Close and the deferred Unlock (which also runs when
\* s.db.Close() panics).
CloseBody(p) ==
    /\ lpc[p] = "Close"
    /\ LET r == CloseOutcome(life)
       IN  /\ life' = [r.s EXCEPT !.mu = life.mu \ {p}]
           /\ last' = [op |-> "Close", err |-> r.err, engine |-> r.engine]
    /\ lpc' = [lpc EXCEPT ![p] = "idle"]
    /\ UNCHANGED <<db, out, conc, hist, bootAt, bk>>

NextLife ==
    \E p \in Procs :
        \/ OpenCall(p)
        \/ CloseCall(p)
        \/ LockMutex(p)
        \/ OpenBody(p)
        \/ CloseBody(p)

SpecLife == Init /\ [][NextLife]_vars

\* ------------------------------------------------------------------ claims

\* Init has created the four buckets.
Initialized == AllBuckets \subseteq db.buckets

\* The last successful AddUser return.
LastAdded == hist[Len(hist)]

\* The key/value content of a file: everything but which buckets exist.
Content(d) == <<d.sequence, d.users, d.events, d.emails, d.phones>>

\* Everything the successful AddUser return h wrote is in the content d.
Present(d, h) ==
    LET key == idToBytes(h.id)
    IN  /\ key \in DOMAIN d.users
        /\ key \in d.events
        /\ h.u.Email \in DOMAIN d.emails
        /\ d.emails[h.u.Email] = key
        /\ h.u.PhoneNo # <<>> =>
              /\ h.u.PhoneNo \in DOMAIN d.phones
              /\ d.phones[h.u.PhoneNo] = key

\* C1: on an initialized store, for every primary record with email E and id
\* I the email index maps key E to I.
C1_EmailIndexAgrees ==
    Initialized =>
        \A k \in DOMAIN db.users :
            LET r == Unmarshal(db.users[k])
            IN  /\ r.Email \in DOMAIN db.emails
                /\ idFromBytes(db.emails[r.Email]) = r.ID

\* C2: AddUser is all-or-nothing.  The content of the file changes only when
\* an AddUser returns without error, and the record, the event bucket, the
\* email entry and the phone entry of every AddUser that has returned without
\* error are in the committed content (what any reader sees) from then on.
C2_AllOrNothing ==
    [][/\ hist' = hist => Content(db') = Content(db)
       /\ \A i \in 1..Len(hist') : Present(db', hist'[i])]_vars

\* The part of C2 that is about one unit of work: the content changes only
\* when an AddUser returns without error, and then everything that call wrote
\* is there together.
AddUserAtomic ==
    [][/\ hist' = hist => Content(db') = Content(db)
       /\ hist' # hist => Present(db', hist'[Len(hist')])]_vars

\* C3: every id a successful AddUser returns is greater than every id a
\* successful AddUser returned before it, across restarts of the process on
\* the same file.
C3_IdsIncrease ==
    \A i, j \in 1..Len(hist) : i < j => hist[i].id < hist[j].id

\* An AddUser succeeded before the process last started and one after.
C3_Witness == bootAt >= 1 /\ Len(hist) > bootAt

\* C4: with AddUser calls running concurrently no two successful calls
\* return the same id, no two primary records share an id, and at most one
\* read-write transaction is open at a time.
C4_UniqueIds ==
    /\ \A i, j \in 1..Len(hist) : i # j => hist[i].id # hist[j].id
    /\ \A k1, k2 \in DOMAIN db.users :
          k1 # k2 => db.users[k1].id # db.users[k2].id
    /\ Cardinality({p \in Procs : tx[p].open}) <= 1

\* Two AddUser calls have succeeded, one goroutine has its transaction open
\* and another one waits in db.Update for it.
C4_Witness ==
    /\ Len(hist) >= 2
    /\ \E p, q \in Procs : p # q /\ tx[p].open /\ pc[q] = "begin"

\* C5: when no AddUser call is running, the email index has as many entries
\* as there are primary records and the phone index as many as there are
\* primary records with a non-empty phone.
C5_OneEntryPerUser ==
    (\A p \in Procs : pc[p] = "idle") =>
        /\ Cardinality(DOMAIN db.emails) = Cardinality(DOMAIN db.users)
        /\ Cardinality(DOMAIN db.phones) =
              Cardinality({k \in DOMAIN db.users : db.users[k].phone # <<>>})

\* C6: for every AddUser(u) that returned id I, GetUser(I) returns without
\* error the record with id I and u's email and phone.
C6_GetUserReturnsAdded ==
    \A i \in 1..Len(hist) :
        GetUser(db, hist[i].id) =
            [user |-> [ID |-> hist[i].id, Email |-> hist[i].u.Email,
                       PhoneNo |-> hist[i].u.PhoneNo],
             err |-> "nil"]

\* C7: an AddUser whose email fails the validity predicate returns the
\* validation error without calling db.Update, and the content of the file
\* (records, indexes, event buckets, counter) is unchanged.
C7_InvalidEmailNoMutation ==
    [][(out' # out /\ out'.op = "AddUser" /\ ~IsEmailValid(out'.u.Email)) =>
           /\ out'.err = "User is not valid"
           /\ out'.id = 0
           /\ ~out'.began
           /\ UNCHANGED <<db, rwlock, tx, hist>>]_vars

\* An AddUser with an invalid email has returned on a store that holds users.
C7_Witness ==
    /\ out.op = "AddUser"
    /\ ~IsEmailValid(out.u.Email)
    /\ out.err = "User is not valid"
    /\ DOMAIN db.users # {}

\* C8: until another AddUser commits, the last AddUser(u) that returned id I
\* is found by its email, and by its phone when it has one.
C8_IndexLookupAfterAdd ==
    hist # <<>> =>
        /\ GetUserIDUsingEmail(db, LastAdded.u.Email) =
              [id |-> LastAdded.id, err |-> "nil"]
        /\ LastAdded.u.PhoneNo # <<>> =>
              GetUserIDUsingPhoneNo(db, LastAdded.u.PhoneNo) =
                  [id |-> LastAdded.id, err |-> "nil"]

\* GetUserIDUsingPhoneNo has returned the id of the last AddUser, whose email
\* and phone an earlier AddUser had used too.
C8_Witness ==
    /\ Len(hist) >= 2
    /\ hist[Len(hist) - 1].u = LastAdded.u
    /\ out.op = "GetUserIDUsingPhoneNo"
    /\ out.phoneNo = LastAdded.u.PhoneNo
    /\ out.ret = [id |-> LastAdded.id, err |-> "nil"]

\* The prefixes C9 is checked for: every prefix of every email, and the
\* prefixes the callers ask for.
C9Prefixes ==
    ReadPrefixes \cup
    UNION {{SubSeq(x.Email, 1, n) : n \in 0..Len(x.Email)} : x \in Users}

\* The ids under the email-index keys that have the prefix, by ascending key:
\* the i-th is the value of the key that has i-1 such keys below it.
FuzzyExpected(prefix) ==
    LET M == {k \in DOMAIN db.emails : HasPrefix(k, prefix)}
        below(k) == {m \in M : BytesCompare(m, k) < 0}
    IN  [i \in 1..Cardinality(M) |->
            idFromBytes(db.emails[CHOOSE k \in M : Cardinality(below(k)) = i - 1])]

\* C9: GetUserIDsMatchingFuzzyEmail(P) returns exactly the values of the
\* email-index entries whose key has the prefix P, by ascending key.
C9_FuzzyExactPrefixMatches ==
    Initialized =>
        \A prefix \in C9Prefixes :
            GetUserIDsMatchingFuzzyEmail(db, prefix).ids = FuzzyExpected(prefix)

\* The search for "a" has returned the ids of "a@b.cc" and "ab@b.cc" in that
\* order, which is not the order of the ids, and has left out "b@b.cc".
C9_Witness ==
    /\ out.op = "GetUserIDsMatchingFuzzyEmail"
    /\ out.email = <<97>>
    /\ out.ret.ids = <<2, 1>>
    /\ DOMAIN db.emails = {EmailA, EmailAB, EmailB}

\* C10: GetUserIDsMatchingFuzzyEmail("") returns the id of every user that
\* was added, by ascending email.
C10_EmptyPrefixReturnsAll ==
    Initialized =>
        LET r == GetUserIDsMatchingFuzzyEmail(db, <<>>).ids
            emailOf(n) == (CHOOSE h \in {hist[i] : i \in 1..Len(hist)} : h.id = n).u.Email
        IN  /\ {r[i] : i \in 1..Len(r)} = {hist[i].id : i \in 1..Len(hist)}
            /\ Len(r) = Len(hist)
            /\ \A i, j \in 1..Len(r) :
                  i < j => BytesCompare(emailOf(r[i]), emailOf(r[j])) <= 0

\* Some email-index key has the prefix.
SomeKeyHasPrefix(prefix) == \E k \in DOMAIN db.emails : HasPrefix(k, prefix)

\* C11: GetUserIDsMatchingFuzzyEmail(P) fails with the not-found error
\* whenever no email-index key starts with P, whether the email index exists
\* or not.
C11_FuzzyNotFoundWhenNoMatch ==
    \A prefix \in C9Prefixes :
        ~SomeKeyHasPrefix(prefix) =>
            GetUserIDsMatchingFuzzyEmail(db, prefix).err # "nil"

\* C11 as amended: GetUserIDsMatchingFuzzyEmail(P) fails with the not-found
\* error exactly when the users bucket or the email index does not exist;
\* when the index exists and no key starts with P it returns no ids and no
\* error.
C11_FuzzyNotFoundOnlyWithoutIndex ==
    \A prefix \in C9Prefixes :
        LET r == GetUserIDsMatchingFuzzyEmail(db, prefix)
        IN  /\ Initialized => r.err = "nil"
            /\ ~Initialized =>
                  r = [ids |-> <<>>, err |-> "Could not find user ID for email"]
            /\ ~SomeKeyHasPrefix(prefix) => r.ids = <<>>

\* The search for "c" on an index that holds emails, none of which starts
\* with "c", has returned no ids and no error.
C11_Witness ==
    /\ Initialized
    /\ DOMAIN db.emails # {}
    /\ out.op = "GetUserIDsMatchingFuzzyEmail"
    /\ out.email = <<99>>
    /\ out.ret = [ids |-> <<>>, err |-> "nil"]

\* The ids the successful AddUser calls have returned.
IssuedIds == {hist[i].id : i \in 1..Len(hist)}

\* C12: GetUser(id) for an id that no successful AddUser has returned fails
\* with the not-found error, and the call leaves the store as it was.
C12_GetUserUnknownIdNotFound ==
    [][(out' # out /\ out'.op = "GetUser" /\ out'.id \notin IssuedIds) =>
           /\ out'.ret = [user |-> ZeroUser, err |-> "Could not find user for ID"]
           /\ UNCHANGED <<db, hist>>]_vars

\* GetUser has failed for id 0 and for an id above the counter on a store
\* that holds users.
C12_Witness ==
    /\ DOMAIN db.users # {}
    /\ out.op = "GetUser"
    /\ out.id \in {0} \cup {n \in ReadIDs : n > db.sequence}
    /\ out.ret.err = "Could not find user for ID"

\* C17: Init on a store that is already initialized leaves the records, the
\* event buckets, both indexes and the counter unchanged, wherever it comes
\* in a sequence of AddUser calls, and after an Init that returns without
\* error the four buckets exist.  (out.d is the content Init was called on.)
C17_InitIdempotent ==
    out.op = "Init" =>
        /\ Content(db) = Content(out.d)
        /\ AllBuckets \subseteq out.d.buckets => db = out.d
        /\ out.err = "nil" => AllBuckets \subseteq db.buckets

\* Init has returned without error on an initialized store that holds users.
C17_Witness ==
    /\ out.op = "Init"
    /\ out.err = "nil"
    /\ AllBuckets \subseteq out.d.buckets
    /\ DOMAIN db.users # {}

\* The last id of a sequence of successful AddUser returns, 0 if none.
LastId(h) == IF h = <<>> THEN 0 ELSE h[Len(h)].id

\* An AddUser step whose unit of work fails after the id was drawn.
FailsAfterDraw ==
    /\ out' # out
    /\ out'.op = "AddUser"
    /\ out'.err # "nil"
    /\ out'.id # 0

\* C18: when an AddUser unit of work fails after the id was drawn, the store
\* is as it was before the call except for the counter, which stays at the
\* id that was drawn (so that the next successful AddUser leaves a gap).
C18_FailedAddConsumesId ==
    [][FailsAfterDraw =>
           /\ db' = [db EXCEPT !.sequence = out'.id]
           /\ out'.id = db.sequence + 1]_vars

\* C18 as amended: when an AddUser unit of work fails after the id was
\* drawn, the store is as it was before the call, the counter included, and
\* every successful AddUser returns the id one above the last id issued: the
\* ids have no gap.
C18_FailedAddRestoresCounter ==
    [][/\ FailsAfterDraw => db' = db
       /\ hist' # hist => LastId(hist') = LastId(hist) + 1]_vars

\* An AddUser has succeeded with the id that an AddUser that failed before it
\* had drawn: at least three calls returned without error or failed after
\* the draw, and the ids still run 1, 2.
C18_Witness ==
    /\ out.op = "AddUser"
    /\ out.err # "nil"
    /\ out.id = db.sequence + 1
    /\ out.id = LastId(hist) + 1
    /\ Len(hist) >= 2

\* C19: on an initialized store every email-index entry E -> I and every
\* phone-index entry P -> I points to a primary record with id I whose email
\* is E (whose phone is P), and the empty string is no key of the phone
\* index.
C19_NoDanglingIndexEntry ==
    Initialized =>
        /\ \A E \in DOMAIN db.emails :
              /\ db.emails[E] \in DOMAIN db.users
              /\ Unmarshal(db.users[db.emails[E]]).ID = idFromBytes(db.emails[E])
              /\ Unmarshal(db.users[db.emails[E]]).Email = E
        /\ \A P \in DOMAIN db.phones :
              /\ db.phones[P] \in DOMAIN db.users
              /\ Unmarshal(db.users[db.phones[P]]).ID = idFromBytes(db.phones[P])
              /\ Unmarshal(db.users[db.phones[P]]).PhoneNo = P
        /\ <<>> \notin DOMAIN db.phones

\* s is a prefix of t.
IsPrefix(s, t) == Len(s) <= Len(t) /\ SubSeq(t, 1, Len(s)) = s

\* C13: what Backup writes is the file as it was when Backup's read-only
\* transaction began, whatever AddUser commits while it streams, and while
\* it streams an AddUser can commit.
C13_BackupIsSnapshot ==
    /\ bk.pc \in {"stream", "done"} => IsPrefix(bk.sink, File(bk.snap))
    /\ (bk.pc = "done" /\ bk.err = "nil") => bk.sink = File(bk.snap)
    /\ (bk.pc = "stream" /\ db.sequence < MaxSeq) => ENABLED AddUserQuiet

\* Backup has returned without error, and an AddUser committed between its
\* first and its last page.
C13_Witness ==
    /\ bk.pc = "done"
    /\ bk.err = "nil"
    /\ bk.to > bk.from
    /\ bk.snap # db
    /\ DOMAIN bk.snap.users # {}

\* C14: when Backup has returned without error on a store that held N
\* users, its output opens as a store, and GetUser on it returns for every id
\* 1..N what GetUser returned on the original store, then and now.
C14_BackupRoundTrip ==
    (bk.pc = "done" /\ bk.err = "nil") =>
        LET copy == ReadFile(bk.sink)
        IN  /\ copy.ok
            /\ \A n \in 1..Cardinality(DOMAIN bk.snap.users) :
                  /\ GetUser(copy.d, n).err = "nil"
                  /\ GetUser(copy.d, n) = GetUser(bk.snap, n)
                  /\ GetUser(copy.d, n) = GetUser(db, n)

\* Backup has returned without error on a store that held two users.
C14_Witness ==
    /\ bk.pc = "done"
    /\ bk.err = "nil"
    /\ Cardinality(DOMAIN bk.snap.users) >= 2
    /\ GetUser(ReadFile(bk.sink).d, 2).err = "nil"

\* C20: for a /backup request the Content-Length taken from Size() is the
\* number of bytes (here pages) that Backup then writes to the response.
C20_ContentLengthIsBackupLength ==
    (bk.pc = "done" /\ bk.err = "nil") => bk.length = Len(bk.sink)

\* C15: when the last lifecycle call that returned is an Open that returned
\* no error, the Close that returns next returns no error, has closed the
\* engine handle and has released the lock on the file.
C15_CloseAfterOpenSucceeds ==
    [][(last.op = "Open" /\ last.err = "nil" /\ last'.op = "Close") =>
           /\ last'.err = "nil"
           /\ last'.engine = "open"
           /\ life'.db = "closed"
           /\ ~life'.flock]_vars

\* C16: a Close on a Store whose engine handle is not open (there is none,
\* or it was closed) returns the not-open error and does not call Close on
\* the engine handle, however the calls race; and a goroutine is in the body
\* of Open or Close only while it holds the mutex.
C16_CloseWhenNotOpen ==
    [][/\ \A p \in Procs :
             (lpc[p] = "Close" /\ lpc'[p] = "idle" /\ life.db # "open") =>
                 /\ last'.err = "The DB connection is not open"
                 /\ last'.engine = "none"
       /\ \A p \in Procs : lpc'[p] \in {"Open", "Close"} => life'.mu = {p}]_vars

====
